---- MODULE Spec2Model ----
(***************************************************************************)
(* Model of the AudioHuzz server: the in-memory Store (server/storage.ts,  *)
(* class MemStorage) and the two HTTP endpoints with the provider fallback *)
(* of identifyMusic (server/routes.ts).                                    *)
(*                                                                         *)
(* Two specifications share the state:                                     *)
(*   StoreSpec  the Store driven directly through its five operations,     *)
(*              with every input the IStorage interface accepts;           *)
(*   Spec       the server: upload and history requests, interleaved at    *)
(*              the await points of their handlers.                        *)
(***************************************************************************)
EXTENDS Integers, Sequences, FiniteSets, TLC

(* ------------------------------ bounds -------------------------------- *)
\* number of randomUUID() calls (records created) in a StoreSpec run
MaxUuid == 3
\* largest value the millisecond clock (new Date()) reaches
MaxClock == 1
\* largest limit handed to getRecentIdentifications; the smallest is -MaxLimit
MaxLimit == 2
\* number of upload requests in a Spec run
MaxRequests == 2
\* largest number a limit query parameter holds; the smallest is its negative
MaxQueryLimit == 2
\* number of upload requests in a HeuristicSpec run (at most MaxRequests)
MaxHeuristicRequests == 1
\* number of successful uploads in a FilledSpec run
MaxStored == 12

(* ------------------------------ values -------------------------------- *)
\* JavaScript null in a text column
null == "null"
\* a null / absent songId (ids are 1, 2, ...: the n-th randomUUID())
NullId == 0
\* an id that randomUUID() never returns (a songId a caller made up)
ForeignId == -1
\* limit = undefined: the parameter default applies
NoLimit == -99
\* getRecentIdentifications(limit = 10)
DefaultLimit == 10

VARIABLES
  songs,            \* MemStorage.songs: id -> Song
  identifications,  \* MemStorage.identifications: Identification records in
                    \* insertion order (the iteration order of the Map)
  uuids,            \* number of ids randomUUID() has produced
  now,              \* the clock new Date() reads
  retSongs,         \* history: <<[input, ret]>> of every createSong call
  retIdents,        \* history: <<[input, ret]>> of every createIdentification
  lastCall,         \* the last Store read: [op, arg, res]
  RAPIDAPI_KEY,     \* process.env.RAPIDAPI_KEY is set
  reqs,             \* the upload requests: r -> the handler's position and locals
  files,            \* the temporary files in uploads/, named by their request
  overlapped,       \* history: two upload requests were in flight together
  hist              \* the last response of GET /api/identifications

storeVars == <<songs, identifications, uuids, now, retSongs, retIdents, lastCall>>
serverVars == <<RAPIDAPI_KEY, reqs, files, overlapped, hist>>
vars == <<songs, identifications, uuids, now, retSongs, retIdents, lastCall,
          RAPIDAPI_KEY, reqs, files, overlapped, hist>>

(* ------------------------- sequences as arrays ------------------------ *)
Min(a, b) == IF a < b THEN a ELSE b
Max(a, b) == IF a > b THEN a ELSE b

\* mutant: the end index is ignored, the whole rest of the array is taken
slice_IgnoresEnd(s, start, end) == s

\* mutant: a negative index counts as 0
RelIndex_ClampsNegative(v, len) == IF v < 0 THEN 0 ELSE Min(v, len)

\* Array.prototype.slice(start, end): a negative index counts from the end
RelIndex(v, len) == IF v < 0 THEN Max(len + v, 0) ELSE Min(v, len)
slice(s, start, end) ==
  LET k   == RelIndex(start, Len(s))
      fin == RelIndex(end, Len(s))
  IN  IF fin <= k THEN <<>> ELSE SubSeq(s, k + 1, fin)

\* mutant: the comparator is a.createdAt - b.createdAt (ascending)
InsertDesc_Ascending(x, sorted) ==
  LET before == {i \in 1..Len(sorted) : sorted[i].createdAt <= x.createdAt}
      k      == IF before = {} THEN 0
                ELSE CHOOSE i \in before : \A j \in before : j <= i
  IN  SubSeq(sorted, 1, k) \o <<x>> \o SubSeq(sorted, k + 1, Len(sorted))

\* Array.prototype.sort with comparator (a, b) => b.createdAt - a.createdAt:
\* a stable sort, so records with equal createdAt keep their array order
InsertDesc(x, sorted) ==
  LET before == {i \in 1..Len(sorted) : sorted[i].createdAt >= x.createdAt}
      k      == IF before = {} THEN 0
                ELSE CHOOSE i \in before : \A j \in before : j <= i
  IN  SubSeq(sorted, 1, k) \o <<x>> \o SubSeq(sorted, k + 1, Len(sorted))

RECURSIVE sortByCreatedAtDesc(_)
sortByCreatedAtDesc(s) ==
  IF s = <<>> THEN <<>>
  ELSE InsertDesc(s[Len(s)], sortByCreatedAtDesc(SubSeq(s, 1, Len(s) - 1)))

(* ------------------------------- Store -------------------------------- *)
\* mutant: the stored record loses the album of the input
MakeSong_DropsAlbum(insertSong, id, t) ==
  [id |-> id, createdAt |-> t, album |-> null] @@ insertSong

\* { ...insertSong, id, createdAt: new Date() }
MakeSong(insertSong, id, t) ==
  [id |-> id, createdAt |-> t] @@ insertSong

\* mutant: the stored record gets a confidence of its own
MakeIdentification_ResetsConfidence(insertIdentification, id, t) ==
  [id |-> id, createdAt |-> t, confidence |-> 0] @@ insertIdentification

\* { ...insertIdentification, id, createdAt: new Date() }
MakeIdentification(insertIdentification, id, t) ==
  [id |-> id, createdAt |-> t] @@ insertIdentification

\* mutant: the Map keeps the newest song only
SongsSet_KeepsOne(m, id, song) == (id :> song)

\* this.songs.set(id, song)
SongsSet(m, id, song) == (id :> song) @@ m

\* this.identifications.set(id, identification), the id being a new key
IdentificationsSet(m, id, identification) == Append(m, identification)

\* this.songs.get(id): <<>> for undefined, <<song>> otherwise
getSong(id) == IF id \in DOMAIN songs THEN <<songs[id]>> ELSE <<>>

\* this.identifications.get(id)
identificationsGet(id) ==
  LET at == {i \in 1..Len(identifications) : identifications[i].id = id}
  IN  IF at = {} THEN <<>> ELSE <<identifications[CHOOSE i \in at : TRUE]>>

\* { ...identification, song }
Joined(identification, song) == [song |-> song] @@ identification

\* mutant: the check of the looked-up song is missing
getIdentificationWithSong_NoSongCheck(id) ==
  LET identification == identificationsGet(id)
  IN  IF identification = <<>> \/ identification[1].songId = NullId
      THEN <<>>
      ELSE LET song == getSong(identification[1].songId)
           IN  IF song = <<>> THEN <<identification[1]>>
               ELSE <<Joined(identification[1], song[1])>>

getIdentificationWithSong(id) ==
  LET identification == identificationsGet(id)
  IN  IF identification = <<>> \/ identification[1].songId = NullId
      THEN <<>>
      ELSE LET song == getSong(identification[1].songId)
           IN  IF song = <<>> THEN <<>>
               ELSE <<Joined(identification[1], song[1])>>

\* the for loop of getRecentIdentifications over the sliced array
RECURSIVE JoinAll(_)
JoinAll(idents) ==
  IF idents = <<>> THEN <<>>
  ELSE LET identification == idents[1]
           rest == JoinAll(Tail(idents))
       IN  IF identification.songId # NullId
           THEN LET song == getSong(identification.songId)
                IN  IF song # <<>>
                    THEN <<Joined(identification, song[1])>> \o rest
                    ELSE rest
           ELSE rest

\* mutant: the Songs are joined first and the result is cut to the limit
getRecentIdentifications_JoinsFirst(limit) ==
  LET lim == IF limit = NoLimit THEN DefaultLimit ELSE limit
  IN  slice(JoinAll(sortByCreatedAtDesc(identifications)), 0, lim)

getRecentIdentifications(limit) ==
  LET lim == IF limit = NoLimit THEN DefaultLimit ELSE limit
  IN  JoinAll(slice(sortByCreatedAtDesc(identifications), 0, lim))

(* ------------------------ StoreSpec: the inputs ----------------------- *)
SongInputs ==
  { [title |-> "Blinding Lights", artist |-> "The Weeknd",
     album |-> "After Hours", year |-> "2019", genre |-> null,
     duration |-> null,
     spotifyUrl |-> "https://open.spotify.com/track/0VjIjW4GlULA1OgON3MzNs",
     youtubeUrl |-> null, albumArt |-> null],
    [title |-> "Unknown Title", artist |-> "Unknown Artist",
     album |-> null, year |-> null, genre |-> null, duration |-> null,
     spotifyUrl |-> null, youtubeUrl |-> null, albumArt |-> null] }

\* songId: null, any id produced so far (a song's or an identification's),
\* or an id that was never produced
IdentificationInputs ==
  { [songId |-> s, filename |-> f, confidence |-> c] :
      s \in {NullId, ForeignId} \cup (1..uuids),
      f \in {"clip.mp3"}, c \in {95} }

\* the ids the getters are asked for: every id produced so far, the next one
\* (not produced yet), null and a made-up one
ProbeIds == {ForeignId, NullId} \cup (1..(uuids + 1))
Limits == {NoLimit} \cup ((0 - MaxLimit)..MaxLimit)

(* ------------------------ identifyMusic: providers -------------------- *)
\* the apis array: the order in which the for loop tries the providers
apis == <<"Shazam Core", "Shazam Song Recognition", "AudD Recognition">>

\* the score each provider's processor reports
ShazamCoreScore == 95
ShazamSongRecognitionScore == 90
AudDScore == 85
apiScore(api) ==
  CASE api = 1 -> ShazamCoreScore
    [] api = 2 -> ShazamSongRecognitionScore
    [] api = 3 -> AudDScore

\* JavaScript a || d on text: an absent, empty or null a gives d
OrElse(a, d) == IF a \in {"", null} THEN d ELSE a

\* what a provider's JSON answer holds ("" = the field is absent)
RawResults ==
  { [found |-> TRUE, title |-> "Blinding Lights", artist |-> "The Weeknd",
     album |-> "After Hours", released |-> "2019-11-29"],
    [found |-> TRUE, title |-> "", artist |-> "", album |-> "", released |-> ""],
    [found |-> FALSE, title |-> "", artist |-> "", album |-> "", released |-> ""] }

\* api.processor(result): <<>> for null, <<musicData>> for a recognized track
processor(api, raw) ==
  IF ~raw.found THEN <<>>
  ELSE << [title |-> OrElse(raw.title, "Unknown Title"),
           artist |-> OrElse(raw.artist, "Unknown Artist"),
           album |-> OrElse(raw.album, null),
           release_date |-> IF api = 2 THEN null ELSE OrElse(raw.released, null),
           score |-> apiScore(api),
           spotifyId |-> null,
           api |-> api] >>

\* the object identifyMusic returns when the loop ends without a match, or
\* when RAPIDAPI_KEY is not set
AllApisFailed == [status |-> "error", music |-> <<>>]
Success(musicData) == [status |-> "success", music |-> <<musicData>>]

(* ------------ identifyMusic: the Shazam + heuristic variant ----------- *)
\* what the heuristic looks at in audioBuffer: its length, the sum of its
\* bytes, and whether the hex MD5 digest of it has an 'a' or a 'b'
\* (the digest of the empty buffer, d41d8cd98f00b204e9800998ecf8427e, has)
EmptyBuffer == [length |-> 0, sum |-> 0, hashAB |-> TRUE]
Buffers ==
  {EmptyBuffer} \cup
  { [length |-> l, sum |-> l * b, hashAB |-> h] :
      l \in {1999999, 2000000, 5000001}, b \in {128, 129}, h \in BOOLEAN }

\* the track the try block returns when Shazam's answer has a track
shazamTrack(raw) ==
  [title |-> OrElse(raw.title, "Unknown Title"),
   artist |-> OrElse(raw.artist, "Unknown Artist"),
   album |-> OrElse(raw.album, null),
   release_date |-> null,
   score |-> 90,
   spotifyId |-> null,
   api |-> 1]

\* songChoice: each later test overrides the earlier ones; avgByte is
\* sum / length, NaN for the empty buffer, and NaN > 128 is false
songChoice(buffer) ==
  LET fileSize == buffer.length
      bySize == IF fileSize > 5000000 THEN 1 ELSE 0
      byAvg == IF buffer.length > 0 /\ buffer.sum > 128 * buffer.length
               THEN 2 ELSE bySize
      bySmall == IF fileSize < 2000000 THEN 3 ELSE byAvg
  IN  IF buffer.hashAB THEN 4 ELSE bySmall

\* mutant: every suggestion is given with a score of 95
suggestions_Confident ==
  [i \in 1..5 |->
     [title |-> "Unknown Song", artist |-> "Unknown Artist",
      album |-> "Could not identify", release_date |-> null, score |-> 95,
      spotifyId |-> null, api |-> 0]]

suggestions ==
  << [title |-> "Unknown Song", artist |-> "Unknown Artist",
      album |-> "Could not identify", release_date |-> null, score |-> 45,
      spotifyId |-> null, api |-> 0],
     [title |-> "Possible Pop Song", artist |-> "Popular Artist",
      album |-> "Detected: High Quality Audio", release_date |-> "2020-01-01",
      score |-> 65, spotifyId |-> null, api |-> 0],
     [title |-> "Possible Rock Song", artist |-> "Rock Band",
      album |-> "Detected: Dynamic Range", release_date |-> "2018-01-01",
      score |-> 60, spotifyId |-> null, api |-> 0],
     [title |-> "Possible Classical", artist |-> "Orchestra",
      album |-> "Detected: Short Duration", release_date |-> "2015-01-01",
      score |-> 55, spotifyId |-> null, api |-> 0],
     [title |-> "Possible Electronic", artist |-> "DJ/Producer",
      album |-> "Detected: Electronic Patterns", release_date |-> "2022-01-01",
      score |-> 70, spotifyId |-> null, api |-> 0] >>

\* the fixed demo track: what the AudioTag variant of identifyMusic returns
\* from its catch block when the AudioTag request fails
DemoTrack ==
  [title |-> "Blinding Lights", artist |-> "The Weeknd", album |-> "After Hours",
   release_date |-> "2019-11-29", score |-> 95,
   spotifyId |-> "0VjIjW4GlULA1OgON3MzNs"]

(* ----------------------- POST /api/identify: values -------------------- *)
\* new Date(release_date).getFullYear(), as text
getFullYear(release_date) ==
  CASE release_date = "2019-11-29" -> "2019"
    [] release_date = "2020-01-01" -> "2020"
    [] release_date = "2018-01-01" -> "2018"
    [] release_date = "2015-01-01" -> "2015"
    [] release_date = "2022-01-01" -> "2022"
    [] OTHER -> "NaN"

\* `https://open.spotify.com/track/${id}`
spotifyTrackUrl(id) ==
  CASE id = "0VjIjW4GlULA1OgON3MzNs" ->
         "https://open.spotify.com/track/0VjIjW4GlULA1OgON3MzNs"
    [] OTHER -> "https://open.spotify.com/track/"

\* musicData.score || 95
DefaultConfidence == 95

\* mutant: title and artist are stored as the track has them
songData_NoDefaults(musicData) ==
  [title |-> musicData.title,
   artist |-> musicData.artist,
   album |-> OrElse(musicData.album, null),
   year |-> IF musicData.release_date \in {"", null} THEN null
            ELSE getFullYear(musicData.release_date),
   genre |-> null,
   duration |-> null,
   spotifyUrl |-> IF musicData.spotifyId \in {"", null} THEN null
                  ELSE spotifyTrackUrl(musicData.spotifyId),
   youtubeUrl |-> null,
   albumArt |-> null]

songData(musicData) ==
  [title |-> OrElse(musicData.title, "Unknown Title"),
   artist |-> OrElse(musicData.artist, "Unknown Artist"),
   album |-> OrElse(musicData.album, null),
   year |-> IF musicData.release_date \in {"", null} THEN null
            ELSE getFullYear(musicData.release_date),
   genre |-> null,
   duration |-> null,
   spotifyUrl |-> IF musicData.spotifyId \in {"", null} THEN null
                  ELSE spotifyTrackUrl(musicData.spotifyId),
   youtubeUrl |-> null,
   albumArt |-> null]

\* req.file.originalname of the r-th upload
originalname(r) == IF r = 1 THEN "first.mp3" ELSE "other.mp3"

\* mutant: the identification is linked to the id after the song's
identificationData_WrongSongId(song, r, musicData) ==
  [songId |-> song.id + 1,
   filename |-> originalname(r),
   confidence |-> IF musicData.score = 0 THEN DefaultConfidence
                  ELSE musicData.score]

\* the argument of storage.createIdentification
identificationData(song, r, musicData) ==
  [songId |-> song.id,
   filename |-> originalname(r),
   confidence |-> IF musicData.score = 0 THEN DefaultConfidence
                  ELSE musicData.score]

\* the JSON bodies of the responses
NoFileBody == [message |-> "No audio file provided"]
\* mutant: the 404 body leaves out what identifyMusic returned
NotIdentifiedBody_NoApiResponse(identificationResult) ==
  [message |-> "Song not identified",
   error |-> "No match found in database. Try uploading a popular song with clear audio quality."]

NotIdentifiedBody(identificationResult) ==
  [message |-> "Song not identified",
   error |-> "No match found in database. Try uploading a popular song with clear audio quality.",
   apiResponse |-> identificationResult]
UnavailableBody ==
  [message |-> "Music identification service unavailable",
   error |-> "apiError.message"]
FailedBody ==
  [message |-> "Identification failed", error |-> "error.message"]

(* ------------------------------- Init --------------------------------- *)
NoCall == [op |-> "none", arg |-> 0, res |-> <<>>]
NoHist == [query |-> "none", limit |-> 0, status |-> 0, body |-> <<>>]

Requests == 1..MaxRequests

IdleRequest ==
  [pc |-> "idle", stored |-> FALSE, api |-> 0, calls |-> <<>>, matches |-> <<>>,
   result |-> [status |-> "none", music |-> <<>>], thrown |-> FALSE,
   song |-> <<>>, identification |-> <<>>, joining |-> <<>>, joined |-> <<>>,
   status |-> 0, body |-> <<>>, buffer |-> <<>>, upload |-> <<>>,
   noMatch |-> FALSE]

StoreInit ==
  /\ songs = <<>>
  /\ identifications = <<>>
  /\ uuids = 0
  /\ now = 0
  /\ retSongs = <<>>
  /\ retIdents = <<>>
  /\ lastCall = NoCall

ServerIdle ==
  /\ reqs = [r \in Requests |-> IdleRequest]
  /\ files = {}
  /\ overlapped = FALSE
  /\ hist = NoHist

Init ==
  /\ StoreInit
  /\ ServerIdle
  /\ RAPIDAPI_KEY \in BOOLEAN

(* ----------------------- the Store's two writers ---------------------- *)
\* what createSong returns: the record it stores
createSongRet(insertSong) == MakeSong(insertSong, uuids + 1, now)

createSong(insertSong) ==
  /\ songs' = SongsSet(songs, uuids + 1, createSongRet(insertSong))
  /\ retSongs' = Append(retSongs,
       [input |-> insertSong, ret |-> createSongRet(insertSong)])
  /\ uuids' = uuids + 1

createIdentificationRet(insertIdentification) ==
  MakeIdentification(insertIdentification, uuids + 1, now)

\* mutant: the identification is stored twice
createIdentification_StoresTwice(insertIdentification) ==
  /\ identifications' = Append(Append(identifications,
       createIdentificationRet(insertIdentification)),
       createIdentificationRet(insertIdentification))
  /\ retIdents' = Append(retIdents,
       [input |-> insertIdentification,
        ret |-> createIdentificationRet(insertIdentification)])
  /\ uuids' = uuids + 1

createIdentification(insertIdentification) ==
  /\ identifications' = IdentificationsSet(identifications, uuids + 1,
       createIdentificationRet(insertIdentification))
  /\ retIdents' = Append(retIdents,
       [input |-> insertIdentification,
        ret |-> createIdentificationRet(insertIdentification)])
  /\ uuids' = uuids + 1

(* ----------------------- StoreSpec: the actions ----------------------- *)
\* a res.json(...) has been issued and the finally block has not run yet:
\* both are in one synchronous stretch, nothing else runs in between
Running == \E r \in Requests : reqs[r].pc = "finally"

\* time passes between two reads of the clock
Tick ==
  /\ ~Running
  /\ now < MaxClock
  /\ now' = now + 1
  /\ UNCHANGED <<songs, identifications, uuids, retSongs, retIdents, lastCall>>
  /\ UNCHANGED serverVars

CallCreateSong ==
  \E insertSong \in SongInputs :
    /\ uuids < MaxUuid
    /\ createSong(insertSong)
    /\ lastCall' = NoCall
    /\ UNCHANGED <<identifications, now, retIdents>>
    /\ UNCHANGED serverVars

CallCreateIdentification ==
  \E insertIdentification \in IdentificationInputs :
    /\ uuids < MaxUuid
    /\ createIdentification(insertIdentification)
    /\ lastCall' = NoCall
    /\ UNCHANGED <<songs, now, retSongs>>
    /\ UNCHANGED serverVars

CallGetSong ==
  \E id \in ProbeIds :
    /\ lastCall' = [op |-> "getSong", arg |-> id, res |-> getSong(id)]
    /\ UNCHANGED <<songs, identifications, uuids, now, retSongs, retIdents>>
    /\ UNCHANGED serverVars

CallGetIdentificationWithSong ==
  \E id \in ProbeIds :
    /\ lastCall' = [op |-> "getIdentificationWithSong", arg |-> id,
                    res |-> getIdentificationWithSong(id)]
    /\ UNCHANGED <<songs, identifications, uuids, now, retSongs, retIdents>>
    /\ UNCHANGED serverVars

CallGetRecentIdentifications ==
  \E limit \in Limits :
    /\ lastCall' = [op |-> "getRecentIdentifications", arg |-> limit,
                    res |-> getRecentIdentifications(limit)]
    /\ UNCHANGED <<songs, identifications, uuids, now, retSongs, retIdents>>
    /\ UNCHANGED serverVars

StoreNext ==
  \/ Tick
  \/ CallCreateSong
  \/ CallCreateIdentification
  \/ CallGetSong
  \/ CallGetIdentificationWithSong
  \/ CallGetRecentIdentifications

\* the Store alone: no request is ever made of the server
InitStore ==
  /\ StoreInit
  /\ ServerIdle
  /\ RAPIDAPI_KEY = FALSE

StoreSpec == InitStore /\ [][StoreNext]_vars

(* --------------------- Spec: POST /api/identify ----------------------- *)
\* the status the error-handling middleware answers with when multer refuses
\* the upload (the middleware is registered outside routes.ts)
UploadRejectedStatus == 400

InFlight(r) == reqs[r].pc \notin {"idle", "done"}

\* the requests are numbered in the order of their arrival
InTurn(r) == IF r = 1 THEN TRUE ELSE reqs[r - 1].pc # "idle"

\* mutant: the response is put off until the finally block has run
send_AfterFinally(q, st, body) == [q EXCEPT !.pc = "finally"]

\* res.status(st).json(body) inside the inner try block or its catch: the
\* finally block runs next
send(q, st, body) == [q EXCEPT !.status = st, !.body = body, !.pc = "finally"]

\* res.status(st).json(body) outside the inner try block: the handler ends
sendAndEnd(q, st, body) == [q EXCEPT !.status = st, !.body = body, !.pc = "done"]

\* fs.unlinkSync(req.file.path)
unlinkSync(fs, r) == fs \ {r}

\* multer's diskStorage writing the upload to uploads/
writeUpload(fs, r) == fs \cup {r}

\* limits: { fileSize: 10 * 1024 * 1024 }
fileSizeLimit == 10 * 1024 * 1024

\* file.mimetype, as its parts between the slashes
Mimetypes == {<<"audio", "mpeg">>, <<"text", "plain">>, <<"audio">>,
              <<"video", "audio">>}

\* the file parts a client sends: the size is the largest allowed or one
\* byte more
Uploads ==
  { [mimetype |-> m, size |-> z] :
      m \in Mimetypes, z \in {fileSizeLimit, fileSizeLimit + 1} }

\* mutant: the fileFilter lets every MIME type through
fileFilter_AcceptsAll(file) == TRUE

\* fileFilter: file.mimetype.startsWith("audio/")
fileFilter(file) == Len(file.mimetype) >= 2 /\ file.mimetype[1] = "audio"

\* limits.fileSize: multer refuses a file of more bytes than the limit
withinLimits(file) == file.size <= fileSizeLimit

\* what upload.single("audio") lets through: no file part (<<>>), or a file
\* the fileFilter accepts and that is within the limits
Accepted(uploads) ==
  {<<>>} \cup {<<file>> : file \in {f \in uploads : fileFilter(f) /\ withinLimits(f)}}

\* the request once upload.single("audio") has let it through
accept(q, upload) ==
  [q EXCEPT !.pc = "handler", !.stored = (upload # <<>>), !.upload = upload]

\* upload.single("audio") stores the accepted file in uploads/, or finds no
\* file part at all: the handler runs
Arrive(r) ==
  \E upload \in Accepted(Uploads) :
    /\ ~Running
    /\ reqs[r].pc = "idle"
    /\ InTurn(r)
    /\ reqs' = [reqs EXCEPT ![r] = accept(@, upload)]
    /\ files' = IF upload # <<>> THEN writeUpload(files, r) ELSE files
    /\ overlapped' = (overlapped \/ \E o \in Requests \ {r} : InFlight(o))
    /\ hist' = NoHist
    /\ UNCHANGED <<RAPIDAPI_KEY>>
    /\ UNCHANGED storeVars

\* the body the error-handling middleware answers with (the middleware is
\* registered outside routes.ts)
UploadRejectedBody(err) == [message |-> err, error |-> err]

\* the fileFilter refuses the MIME type, or the file exceeds limits.fileSize:
\* multer passes an error on, the handler does not run and no file is left
\* in uploads/
MulterRejects(r) ==
  \E file \in Uploads :
    /\ ~(fileFilter(file) /\ withinLimits(file))
    /\ ~Running
    /\ reqs[r].pc = "idle"
    /\ InTurn(r)
    /\ reqs' = [reqs EXCEPT ![r] =
         sendAndEnd([@ EXCEPT !.upload = <<file>>], UploadRejectedStatus,
                    UploadRejectedBody(IF ~fileFilter(file)
                                       THEN "Only audio files are allowed"
                                       ELSE "File too large"))]
    /\ hist' = NoHist
    /\ UNCHANGED <<RAPIDAPI_KEY, files, overlapped>>
    /\ UNCHANGED storeVars

\* mutant: the handler goes on without a file
HandlerStart_IgnoresMissingFile(r) ==
  /\ ~Running
  /\ reqs[r].pc = "handler"
  /\ reqs' = [reqs EXCEPT ![r] = [@ EXCEPT !.pc = "read"]]
  /\ hist' = NoHist
  /\ UNCHANGED <<RAPIDAPI_KEY, files, overlapped>>
  /\ UNCHANGED storeVars

\* if (!req.file) return 400; const fs = await import("fs")
HandlerStart(r) ==
  /\ ~Running
  /\ reqs[r].pc = "handler"
  /\ reqs' = [reqs EXCEPT ![r] =
       IF ~@.stored THEN sendAndEnd(@, 400, NoFileBody)
       ELSE [@ EXCEPT !.pc = "read"]]
  /\ hist' = NoHist
  /\ UNCHANGED <<RAPIDAPI_KEY, files, overlapped>>
  /\ UNCHANGED storeVars

\* mutant: the provider's failure is thrown out of identifyMusic, into the
\* handler's inner catch
nextApi_Rethrows(q) == [q EXCEPT !.pc = "songCreated", !.thrown = TRUE]

\* the loop moves on after a provider attempt that gave no track: the next
\* provider is called, or the loop ends and identifyMusic returns the error
nextApi(q) ==
  IF q.api < Len(apis)
  THEN [q EXCEPT !.api = @ + 1, !.calls = Append(@, q.api + 1), !.pc = "fetch"]
  ELSE [q EXCEPT !.pc = "identified", !.result = AllApisFailed]

\* mutant: the match is kept but the loop goes on to the next provider
returnMatch_KeepsLooping(q, musicData) ==
  IF q.api < Len(apis)
  THEN [q EXCEPT !.matches = Append(@, q.api), !.api = @ + 1,
                 !.calls = Append(@, q.api + 1), !.pc = "fetch"]
  ELSE [q EXCEPT !.matches = Append(@, q.api), !.pc = "identified",
                 !.result = Success(musicData)]

\* a provider's processor found a track: identifyMusic returns at once
returnMatch(q, musicData) ==
  [q EXCEPT !.matches = Append(@, q.api), !.pc = "identified",
            !.result = Success(musicData), !.noMatch = FALSE]

\* identifyMusic up to its first await
identifyMusicStart(q, key) ==
  IF key
  THEN [q EXCEPT !.api = 1, !.calls = <<1>>, !.pc = "fetch"]
  ELSE [q EXCEPT !.pc = "identified", !.result = AllApisFailed]

\* fs.readFileSync(req.file.path), outside the inner try block: it throws
\* (outer catch, 500) or gives the buffer and identifyMusic is called
ReadFile(r) ==
  /\ ~Running
  /\ reqs[r].pc = "read"
  /\ \/ reqs' = [reqs EXCEPT ![r] = sendAndEnd(@, 500, FailedBody)]
     \/ reqs' = [reqs EXCEPT ![r] = identifyMusicStart(@, RAPIDAPI_KEY)]
  /\ hist' = NoHist
  /\ UNCHANGED <<RAPIDAPI_KEY, files, overlapped>>
  /\ UNCHANGED storeVars

\* await fetch(api.url, ...) settles: rejected (network error), or a response
\* that is ok or not
FetchSettles(r) ==
  \E o \in {"rejected", "ok", "notok"} :
    /\ ~Running
    /\ reqs[r].pc = "fetch"
    /\ reqs' = [reqs EXCEPT ![r] =
         CASE o = "rejected" -> nextApi(@)
           [] o = "ok" -> [@ EXCEPT !.pc = "json"]
           [] o = "notok" -> [@ EXCEPT !.pc = "text"]]
    /\ hist' = NoHist
    /\ UNCHANGED <<RAPIDAPI_KEY, files, overlapped>>
    /\ UNCHANGED storeVars

\* await response.json() settles: it throws, or api.processor sees the result
\* (noMatch records, while no provider has matched, that one answered and had
\* no track)
JsonSettles(r) ==
  /\ ~Running
  /\ reqs[r].pc = "json"
  /\ \/ reqs' = [reqs EXCEPT ![r] = nextApi(@)]
     \/ \E raw \in RawResults :
          reqs' = [reqs EXCEPT ![r] =
            LET processedResult == processor(@.api, raw)
            IN  IF processedResult # <<>>
                THEN returnMatch(@, processedResult[1])
                ELSE nextApi([@ EXCEPT !.noMatch = TRUE])]
  /\ hist' = NoHist
  /\ UNCHANGED <<RAPIDAPI_KEY, files, overlapped>>
  /\ UNCHANGED storeVars

\* await response.text() settles (or throws): the error is logged
TextSettles(r) ==
  /\ ~Running
  /\ reqs[r].pc = "text"
  /\ reqs' = [reqs EXCEPT ![r] = nextApi(@)]
  /\ hist' = NoHist
  /\ UNCHANGED <<RAPIDAPI_KEY, files, overlapped>>
  /\ UNCHANGED storeVars

\* the provider never answers, or never ends its answer: fetch is called
\* with method, headers and body only, no signal and no timer, so the await
\* stays pending and nothing in the handler resumes
ProviderHangs(r) ==
  /\ ~Running
  /\ reqs[r].pc \in {"fetch", "json", "text"}
  /\ reqs' = [reqs EXCEPT ![r] = [@ EXCEPT !.pc = "hung"]]
  /\ hist' = NoHist
  /\ UNCHANGED <<RAPIDAPI_KEY, files, overlapped>>
  /\ UNCHANGED storeVars

\* identificationResult.status !== "success" || !metadata?.music?.[0]
notIdentified(identificationResult) ==
  identificationResult.status # "success" \/ identificationResult.music = <<>>

\* the handler resumes after await identifyMusic(...): 404, or
\* storage.createSong(songData) is called (Map.set can throw: the Map is full)
AfterIdentify(r) ==
  /\ ~Running
  /\ reqs[r].pc = "identified"
  /\ IF notIdentified(reqs[r].result)
     THEN /\ reqs' = [reqs EXCEPT ![r] =
                send(@, 404, NotIdentifiedBody(@.result))]
          /\ UNCHANGED <<songs, retSongs, uuids>>
     ELSE LET insertSong == songData(reqs[r].result.music[1])
          IN  \/ /\ createSong(insertSong)
                 /\ reqs' = [reqs EXCEPT ![r] =
                      [@ EXCEPT !.pc = "songCreated",
                                !.song = <<createSongRet(insertSong)>>]]
              \/ /\ reqs' = [reqs EXCEPT ![r] =
                      [@ EXCEPT !.pc = "songCreated", !.thrown = TRUE]]
                 /\ UNCHANGED <<songs, retSongs, uuids>>
  /\ hist' = NoHist
  /\ UNCHANGED <<RAPIDAPI_KEY, files, overlapped>>
  /\ UNCHANGED <<identifications, now, retIdents, lastCall>>

\* the handler resumes after await storage.createSong(...): inner catch (500),
\* or storage.createIdentification(...) is called
AfterCreateSong(r) ==
  /\ ~Running
  /\ reqs[r].pc = "songCreated"
  /\ IF reqs[r].thrown
     THEN /\ reqs' = [reqs EXCEPT ![r] = send(@, 500, UnavailableBody)]
          /\ UNCHANGED <<identifications, retIdents, uuids>>
     ELSE LET insertIdentification ==
                identificationData(reqs[r].song[1], r, reqs[r].result.music[1])
          IN  \/ /\ createIdentification(insertIdentification)
                 /\ reqs' = [reqs EXCEPT ![r] =
                      [@ EXCEPT !.pc = "identCreated",
                                !.identification =
                                  <<createIdentificationRet(insertIdentification)>>]]
              \/ /\ reqs' = [reqs EXCEPT ![r] =
                      [@ EXCEPT !.pc = "identCreated", !.thrown = TRUE]]
                 /\ UNCHANGED <<identifications, retIdents, uuids>>
  /\ hist' = NoHist
  /\ UNCHANGED <<RAPIDAPI_KEY, files, overlapped>>
  /\ UNCHANGED <<songs, now, retSongs, lastCall>>

\* the handler resumes after await storage.createIdentification(...): inner
\* catch (500), or storage.getIdentificationWithSong(identification.id) is
\* called and reads both Maps before its own await
AfterCreateIdentification(r) ==
  /\ ~Running
  /\ reqs[r].pc = "identCreated"
  /\ reqs' = [reqs EXCEPT ![r] =
       IF @.thrown THEN send(@, 500, UnavailableBody)
       ELSE [@ EXCEPT !.pc = "joining",
                      !.joining =
                        getIdentificationWithSong(reqs[r].identification[1].id)]]
  /\ hist' = NoHist
  /\ UNCHANGED <<RAPIDAPI_KEY, files, overlapped>>
  /\ UNCHANGED storeVars

\* getIdentificationWithSong resumes after await this.getSong(...) and returns
JoinResumes(r) ==
  /\ ~Running
  /\ reqs[r].pc = "joining"
  /\ reqs' = [reqs EXCEPT ![r] = [@ EXCEPT !.pc = "joined", !.joined = reqs[r].joining]]
  /\ hist' = NoHist
  /\ UNCHANGED <<RAPIDAPI_KEY, files, overlapped>>
  /\ UNCHANGED storeVars

\* the handler resumes after await storage.getIdentificationWithSong(...):
\* res.json(result)
SendResult(r) ==
  /\ ~Running
  /\ reqs[r].pc = "joined"
  /\ reqs' = [reqs EXCEPT ![r] = send(@, 200, @.joined)]
  /\ hist' = NoHist
  /\ UNCHANGED <<RAPIDAPI_KEY, files, overlapped>>
  /\ UNCHANGED storeVars

\* finally { fs.unlinkSync(req.file.path) }
Cleanup(r) ==
  /\ reqs[r].pc = "finally"
  /\ files' = unlinkSync(files, r)
  /\ reqs' = [reqs EXCEPT ![r] = [@ EXCEPT !.pc = "done"]]
  /\ hist' = NoHist
  /\ UNCHANGED <<RAPIDAPI_KEY, overlapped>>
  /\ UNCHANGED storeVars

(* ------------------- Spec: GET /api/identifications ------------------- *)
\* req.query.limit: absent, or a text
Queries == {"absent", "abc", "2px"} \cup
           {ToString(n) : n \in (0 - MaxQueryLimit)..MaxQueryLimit}

\* parseInt(text): <<>> for NaN, <<n>> for a number (a leading number counts)
parseInt(text) ==
  LET ns == {n \in (0 - MaxQueryLimit)..MaxQueryLimit : ToString(n) = text}
  IN  IF ns # {} THEN <<CHOOSE n \in ns : TRUE>>
      ELSE IF text = "2px" THEN <<2>>
      ELSE <<>>

\* parseInt(req.query.limit as string) || 10
HistoryDefaultLimit == 10

\* mutant: no default, NaN counts as 0
queryLimit_NoDefault(text) ==
  LET n == parseInt(text)
  IN  IF n = <<>> THEN 0 ELSE n[1]

queryLimit(text) ==
  LET n == parseInt(text)
  IN  IF n = <<>> \/ n = <<0>> THEN HistoryDefaultLimit ELSE n[1]

\* the handler of GET /api/identifications. getRecentIdentifications sorts
\* and slices a copy of the Map's values before its first await, and Songs are
\* only ever added, so its awaits are not modelled as separate steps.
History ==
  \E text \in Queries :
    /\ ~Running
    /\ hist' = [query |-> text, limit |-> queryLimit(text), status |-> 200,
                body |-> getRecentIdentifications(queryLimit(text))]
    /\ UNCHANGED <<RAPIDAPI_KEY, reqs, files, overlapped>>
    /\ UNCHANGED storeVars

\* the steps of the r-th upload request
RequestStep(r) ==
  \/ Arrive(r)
  \/ MulterRejects(r)
  \/ HandlerStart(r)
  \/ ReadFile(r)
  \/ FetchSettles(r)
  \/ JsonSettles(r)
  \/ TextSettles(r)
  \/ ProviderHangs(r)
  \/ AfterIdentify(r)
  \/ AfterCreateSong(r)
  \/ AfterCreateIdentification(r)
  \/ JoinResumes(r)
  \/ SendResult(r)
  \/ Cleanup(r)

Next ==
  \/ Tick
  \/ History
  \/ \E r \in Requests : RequestStep(r)

Spec == Init /\ [][Next]_vars

(* ------- FilledSpec: the history of a Store that uploads filled ------- *)
\* the track of an upload that AudD matched
matchedTrack == processor(3, CHOOSE raw \in RawResults : raw.title # "")[1]

\* a successful upload as the Store sees it, first half: createSong(songData)
UploadCreatesSong ==
  /\ Cardinality(DOMAIN songs) = Len(identifications)
  /\ Len(identifications) < MaxStored
  /\ createSong(songData(matchedTrack))
  /\ lastCall' = NoCall
  /\ hist' = NoHist
  /\ UNCHANGED <<identifications, now, retIdents>>
  /\ UNCHANGED <<RAPIDAPI_KEY, reqs, files, overlapped>>

\* second half: createIdentification with the id of the Song just created
UploadCreatesIdentification ==
  /\ Cardinality(DOMAIN songs) > Len(identifications)
  /\ createIdentification(identificationData(songs[uuids], 1, matchedTrack))
  /\ lastCall' = NoCall
  /\ hist' = NoHist
  /\ UNCHANGED <<songs, now, retSongs>>
  /\ UNCHANGED <<RAPIDAPI_KEY, reqs, files, overlapped>>

FilledNext ==
  \/ Tick
  \/ History
  \/ UploadCreatesSong
  \/ UploadCreatesIdentification

FilledSpec == InitStore /\ [][FilledNext]_vars

(* ------ HeuristicSpec: the server with the Shazam + heuristic variant --- *)
\* identifyMusic up to its first await: the request to Shazam Core is sent,
\* with the header X-RapidAPI-Key set to process.env.RAPIDAPI_KEY || ''
identifyMusicHeuristicStart(q, audioBuffer) ==
  [q EXCEPT !.buffer = <<audioBuffer>>, !.api = 1, !.calls = <<1>>, !.pc = "fetch"]

\* the catch block is entered: const crypto = await import("crypto")
catchHeuristic(q) == [q EXCEPT !.pc = "crypto"]

\* the file parts sent to this variant: audio files of the lengths of Buffers
HeuristicUploads ==
  { [mimetype |-> <<"audio", "mpeg">>, size |-> b.length] : b \in Buffers }

\* upload.single("audio"), as in Arrive
HeuristicArrive(r) ==
  \E upload \in Accepted(HeuristicUploads) :
    /\ ~Running
    /\ reqs[r].pc = "idle"
    /\ InTurn(r)
    /\ reqs' = [reqs EXCEPT ![r] = accept(@, upload)]
    /\ files' = IF upload # <<>> THEN writeUpload(files, r) ELSE files
    /\ overlapped' = (overlapped \/ \E o \in Requests \ {r} : InFlight(o))
    /\ hist' = NoHist
    /\ UNCHANGED <<RAPIDAPI_KEY>>
    /\ UNCHANGED storeVars

\* fs.readFileSync(req.file.path): it throws (outer catch, 500) or gives the
\* buffer, as long as the file, and identifyMusic is called
HeuristicReadFile(r) ==
  /\ ~Running
  /\ reqs[r].pc = "read"
  /\ \/ reqs' = [reqs EXCEPT ![r] = sendAndEnd(@, 500, FailedBody)]
     \/ \E audioBuffer \in {b \in Buffers : b.length = reqs[r].upload[1].size} :
          reqs' = [reqs EXCEPT ![r] = identifyMusicHeuristicStart(@, audioBuffer)]
  /\ hist' = NoHist
  /\ UNCHANGED <<RAPIDAPI_KEY, files, overlapped>>
  /\ UNCHANGED storeVars

\* await fetch(...) settles: rejected, or a response that is ok or not (then
\* the try block throws)
HeuristicFetchSettles(r) ==
  \E o \in {"rejected", "ok", "notok"} :
    /\ ~Running
    /\ reqs[r].pc = "fetch"
    /\ reqs' = [reqs EXCEPT ![r] =
         IF o = "ok" THEN [@ EXCEPT !.pc = "json"] ELSE catchHeuristic(@)]
    /\ hist' = NoHist
    /\ UNCHANGED <<RAPIDAPI_KEY, files, overlapped>>
    /\ UNCHANGED storeVars

\* await response.json() settles: it throws, or the result has a track and
\* identifyMusic returns it, or it has none and the try block throws
HeuristicJsonSettles(r) ==
  /\ ~Running
  /\ reqs[r].pc = "json"
  /\ \/ reqs' = [reqs EXCEPT ![r] = catchHeuristic(@)]
     \/ \E raw \in RawResults :
          reqs' = [reqs EXCEPT ![r] =
            IF raw.found
            THEN [@ EXCEPT !.matches = <<1>>, !.pc = "identified",
                           !.result = Success(shazamTrack(raw)),
                           !.buffer = <<>>]
            ELSE catchHeuristic([@ EXCEPT !.noMatch = TRUE])]
  /\ hist' = NoHist
  /\ UNCHANGED <<RAPIDAPI_KEY, files, overlapped>>
  /\ UNCHANGED storeVars

\* the catch block resumes after await import("crypto"): the suggestion the
\* buffer's characteristics select is returned as a success
CryptoImported(r) ==
  /\ ~Running
  /\ reqs[r].pc = "crypto"
  /\ reqs' = [reqs EXCEPT ![r] =
       [@ EXCEPT !.pc = "identified",
                 !.result = Success(suggestions[songChoice(reqs[r].buffer[1]) + 1]),
                 !.buffer = <<>>]]
  /\ hist' = NoHist
  /\ UNCHANGED <<RAPIDAPI_KEY, files, overlapped>>
  /\ UNCHANGED storeVars

\* the uploads made to this variant
HeuristicRequests == 1..MaxHeuristicRequests

HeuristicNext ==
  \/ Tick
  \/ History
  \/ \E r \in HeuristicRequests :
       \/ HeuristicArrive(r)
       \/ MulterRejects(r)
       \/ HandlerStart(r)
       \/ HeuristicReadFile(r)
       \/ HeuristicFetchSettles(r)
       \/ HeuristicJsonSettles(r)
       \/ CryptoImported(r)
       \/ ProviderHangs(r)
       \/ AfterIdentify(r)
       \/ AfterCreateSong(r)
       \/ AfterCreateIdentification(r)
       \/ JoinResumes(r)
       \/ SendResult(r)
       \/ Cleanup(r)

HeuristicSpec == Init /\ [][HeuristicNext]_vars

(* ============================== claims ================================ *)
\* the records createSong / createIdentification have returned so far
ReturnedSongs == {retSongs[i].ret : i \in 1..Len(retSongs)}
ReturnedIdentifications == {retIdents[i].ret : i \in 1..Len(retIdents)}
SongFields == {"title", "artist", "album", "year", "genre", "duration",
               "spotifyUrl", "youtubeUrl", "albumArt"}
IdentificationFields == {"songId", "filename", "confidence"}
\* the Identification part of an IdentificationResult
WithoutSong(result) == [f \in DOMAIN result \ {"song"} |-> result[f]]

\* C1: in every state reachable through upload requests, interleaved at
\* their await points, every stored Identification with a non-null songId
\* references a Song that is in the Store and was created before it.
C1_SongIdReferencesStoredSong ==
  \A i \in 1..Len(identifications) :
    identifications[i].songId # NullId
      => /\ identifications[i].songId \in DOMAIN songs
         /\ \E song \in ReturnedSongs :
              /\ song.id = identifications[i].songId
              /\ song.id < identifications[i].id
              /\ song.createdAt <= identifications[i].createdAt

\* two interleaved uploads have both stored their Identification
C1_Witness ==
  /\ overlapped
  /\ Len(identifications) = 2
  /\ \A i \in 1..2 : identifications[i].songId \in DOMAIN songs

\* C2: every Song createSong returned is what getSong(its id) returns, with
\* every input field equal and id and createdAt present, in every later
\* state of the Store.
C2_SongRoundTrip ==
  \A i \in 1..Len(retSongs) :
    LET song == retSongs[i].ret
        insertSong == retSongs[i].input
    IN  /\ DOMAIN song = SongFields \cup {"id", "createdAt"}
        /\ \A f \in SongFields : song[f] = insertSong[f]
        /\ song.id \in 1..uuids
        /\ song.createdAt \in 0..now
        /\ getSong(song.id) = <<song>>

\* getSong has returned the first Song after two more records were created
C2_Witness ==
  /\ Len(retSongs) >= 2
  /\ Len(retIdents) >= 1
  /\ lastCall.op = "getSong"
  /\ lastCall.arg = retSongs[1].ret.id
  /\ lastCall.res = <<retSongs[1].ret>>

\* C3 as stated: every Identification createIdentification returned is
\* retrievable unchanged via getIdentificationWithSong(its id).
C3_Original_AlwaysRetrievable ==
  \A i \in 1..Len(retIdents) :
    LET res == getIdentificationWithSong(retIdents[i].ret.id)
    IN  /\ res # <<>>
        /\ WithoutSong(res[1]) = retIdents[i].ret

\* C3 amended: every Identification createIdentification returned stays
\* stored unchanged (input fields equal, id and createdAt present), and
\* getIdentificationWithSong(its id) returns it unchanged, joined with its
\* Song, when its songId is non-null and names a stored Song, and not-found
\* otherwise.
C3_IdentificationRoundTrip ==
  \A i \in 1..Len(retIdents) :
    LET identification == retIdents[i].ret
        insertIdentification == retIdents[i].input
        res == getIdentificationWithSong(identification.id)
    IN  /\ DOMAIN identification = IdentificationFields \cup {"id", "createdAt"}
        /\ \A f \in IdentificationFields :
             identification[f] = insertIdentification[f]
        /\ identification.id \in 1..uuids
        /\ identification.createdAt \in 0..now
        /\ identificationsGet(identification.id) = <<identification>>
        /\ IF identification.songId # NullId
              /\ \E song \in ReturnedSongs : song.id = identification.songId
           THEN /\ res # <<>>
                /\ WithoutSong(res[1]) = identification
           ELSE res = <<>>

\* the first Identification has been read back, joined, after later creations,
\* and another stored Identification has no retrievable Song
C3_Witness ==
  /\ Len(retIdents) >= 2
  /\ lastCall.op = "getIdentificationWithSong"
  /\ lastCall.res # <<>>
  /\ lastCall.arg = retIdents[1].ret.id
  /\ WithoutSong(lastCall.res[1]) = retIdents[1].ret
  /\ getIdentificationWithSong(retIdents[2].ret.id) = <<>>

\* C4: getIdentificationWithSong(id) is not-found exactly when no
\* Identification with that id was created, or the created one has no songId,
\* or its songId names no created Song; otherwise it is that Identification
\* joined with the Song its songId names.
C4_NotFoundExactly ==
  \A id \in ProbeIds :
    LET res == getIdentificationWithSong(id)
        created == {x \in ReturnedIdentifications : x.id = id}
        resolvable ==
          {x \in created :
             /\ x.songId # NullId
             /\ \E song \in ReturnedSongs : song.id = x.songId}
    IN  /\ (res = <<>>) <=> (resolvable = {})
        /\ res # <<>> =>
             \E x \in resolvable : \E song \in ReturnedSongs :
               /\ song.id = x.songId
               /\ res[1] = Joined(x, song)

\* the getter has answered not-found for a stored Identification whose songId
\* names no Song, while another stored Identification resolves
C4_Witness ==
  /\ lastCall.op = "getIdentificationWithSong"
  /\ lastCall.res = <<>>
  /\ \E x \in ReturnedIdentifications :
       /\ x.id = lastCall.arg
       /\ x.songId # NullId
  /\ \E y \in ReturnedIdentifications : getIdentificationWithSong(y.id) # <<>>

\* an entry of a history carries the stored Song its songId names
CarriesItsSong(entry) ==
  /\ entry.songId # NullId
  /\ \E song \in ReturnedSongs :
       /\ song.id = entry.songId
       /\ entry.song = song
  /\ WithoutSong(entry) \in ReturnedIdentifications

\* C5 as stated: for every limit, getRecentIdentifications(limit) returns at
\* most limit entries, each carrying the stored Song its songId names.
C5_Original_AtMostLimit ==
  lastCall.op = "getRecentIdentifications" /\ lastCall.arg # NoLimit
    => /\ Len(lastCall.res) <= lastCall.arg
       /\ \A i \in 1..Len(lastCall.res) : CarriesItsSong(lastCall.res[i])

\* C5 amended: for every limit >= 0, getRecentIdentifications(limit) returns
\* at most limit entries; for every limit, every returned entry carries the
\* stored Song its songId names.
C5_AtMostLimitAndResolved ==
  \A limit \in Limits :
    LET res == getRecentIdentifications(limit)
    IN  /\ limit >= 0 => Len(res) <= limit
        /\ \A i \in 1..Len(res) : CarriesItsSong(res[i])

\* a call with limit 1 has returned one entry, cutting off the second stored
\* Identification, which has a null or dangling songId
C5_Witness ==
  /\ lastCall.op = "getRecentIdentifications"
  /\ lastCall.arg = 1
  /\ Len(lastCall.res) = 1
  /\ Len(identifications) = 2
  /\ \E i \in 1..2 : getIdentificationWithSong(identifications[i].id) = <<>>

\* C6 as stated: adjacent entries of getRecentIdentifications have strictly
\* descending createdAt.
C6_Original_StrictlyDescending ==
  \A limit \in Limits :
    LET res == getRecentIdentifications(limit)
    IN  \A i \in 1..(Len(res) - 1) : res[i].createdAt > res[i + 1].createdAt

\* C6 amended: adjacent entries of getRecentIdentifications have descending
\* createdAt, not strictly: the earlier entry's createdAt is greater than or
\* equal to the later entry's.
C6_Descending ==
  \A limit \in Limits :
    LET res == getRecentIdentifications(limit)
    IN  \A i \in 1..(Len(res) - 1) : res[i].createdAt >= res[i + 1].createdAt

\* a history holds an entry created later than the one that follows it,
\* though stored after it
C6_Witness ==
  /\ lastCall.op = "getRecentIdentifications"
  /\ Len(lastCall.res) >= 2
  /\ lastCall.res[1].createdAt > lastCall.res[2].createdAt
  /\ lastCall.res[1].id > lastCall.res[2].id

\* no upload handler is running
Quiescent == \A r \in Requests : ~InFlight(r)
\* the uploads answered with 200
Succeeded == {r \in Requests : reqs[r].status = 200}
\* the k most recently created Identifications, newest first, each joined
\* with its Song
NewestFirst(k) ==
  [i \in 1..k |->
     LET identification == retIdents[Len(retIdents) + 1 - i].ret
     IN  Joined(identification, songs[identification.songId])]

\* C7 as stated: after n successful uploads completed one after another, a
\* history request with limit=k (1 <= k <= n) returns exactly the k most
\* recently created identifications, newest first.
C7_Original_NewestFirst ==
  (Quiescent /\ ~overlapped /\ Succeeded # {}
     /\ Len(retIdents) = Cardinality(Succeeded))
    => \A k \in 1..Min(Cardinality(Succeeded), MaxQueryLimit) :
         getRecentIdentifications(queryLimit(ToString(k))) = NewestFirst(k)

\* C8 as stated: once a request that stored a temporary file has finished,
\* on any exit path, the file no longer exists.
C8_Original_FileDeletedWhenDone ==
  \A r \in Requests :
    (reqs[r].stored /\ reqs[r].pc = "done") => r \notin files

\* C9 as stated: the temporary file is deleted before the response is sent:
\* at the step that deletes it no response has been sent yet.
C9_Original_DeletedBeforeResponse ==
  [][\A r \in Requests :
       (r \in files /\ r \notin files') => reqs[r].status = 0]_vars

\* C9 amended: on every code path of the Upload Endpoint that deletes the
\* temporary file, the response is sent first and the file is deleted right
\* after it, by the finally block: at the step that deletes the file the
\* response has been sent, and it is the request's last step.
C9_DeletedAfterResponse ==
  [][\A r \in Requests :
       (r \in files /\ r \notin files')
         => /\ reqs[r].status # 0
            /\ reqs[r].pc = "finally"
            /\ reqs'[r].pc = "done"
            /\ reqs'[r].status = reqs[r].status]_vars

\* an upload answered with 200 has ended and its file is gone
C9_Witness ==
  \E r \in Requests :
    /\ reqs[r].pc = "done"
    /\ reqs[r].status = 200
    /\ reqs[r].stored
    /\ r \notin files

\* C10: within one identifyMusic call the providers are called one at a
\* time in the order of the apis array; once a provider has yielded a track
\* no further provider is called and the result returned is that track, so
\* it comes from the first provider that matched.
C10_FirstMatchWins ==
  \A r \in Requests :
    LET q == reqs[r]
    IN  /\ Len(q.calls) <= Len(apis)
        /\ \A i \in 1..Len(q.calls) : q.calls[i] = i
        /\ q.pc \in {"fetch", "json", "text"}
             => q.api = Len(q.calls) /\ q.matches = <<>>
        /\ ~RAPIDAPI_KEY => q.calls = <<>>
        /\ Len(q.matches) <= 1
        /\ q.matches # <<>>
             => /\ q.matches[1] = q.calls[Len(q.calls)]
                /\ q.result.status = "success"
                /\ q.result.music[1].api = q.matches[1]
                /\ q.result.music[1].score = apiScore(q.matches[1])
        /\ q.result.status = "success" => q.matches # <<>>

\* the second provider yielded the track after the first gave none, and the
\* third was not called
C10_Witness ==
  \E r \in Requests :
    /\ reqs[r].calls = <<1, 2>>
    /\ reqs[r].matches = <<2>>
    /\ reqs[r].result.status = "success"
    /\ reqs[r].pc = "done"

\* C11: whenever a provider attempt ends without a track (the fetch is
\* rejected, the response is not ok, response.json() throws or the processor
\* finds no track), identifyMusic does not throw and no response is sent: the
\* next provider of the array is called, or, after the last one,
\* identifyMusic returns its error result.
C11_FailureMovesOn ==
  [][\A r \in Requests :
       LET q == reqs[r]
           q2 == reqs'[r]
       IN  /\ q.pc \in {"fetch", "json", "text"}
             => ~q2.thrown /\ q2.status = 0
           /\ (/\ q.pc \in {"fetch", "json", "text"}
               /\ q2 # q
               /\ q2.pc \notin {"json", "text", "hung"}
               /\ q2.matches = q.matches)
             => IF q.api < Len(apis)
                THEN /\ q2.pc = "fetch"
                     /\ q2.api = q.api + 1
                     /\ q2.calls = Append(q.calls, q.api + 1)
                ELSE /\ q2.pc = "identified"
                     /\ q2.result = AllApisFailed
                     /\ q2.calls = q.calls]_vars

\* all three providers failed one after another and identifyMusic returned
\* its error result without throwing
C11_Witness ==
  \E r \in Requests :
    /\ reqs[r].calls = <<1, 2, 3>>
    /\ reqs[r].matches = <<>>
    /\ reqs[r].result = AllApisFailed
    /\ ~reqs[r].thrown
    /\ reqs[r].pc = "identified"

\* C12 as stated: when no provider is configured (RAPIDAPI_KEY is not set),
\* identifyMusic returns the fixed placeholder track as a success with a
\* score of at most 100, and the upload is answered 200 with a Song that has
\* the placeholder's title and a null albumArt.
C12_Original_PlaceholderWhenUnconfigured ==
  \A r \in Requests :
    (~RAPIDAPI_KEY /\ reqs[r].result.status # "none")
      => /\ reqs[r].result.status = "success"
         /\ reqs[r].result.music[1].title = DemoTrack.title
         /\ reqs[r].result.music[1].score <= 100
         /\ (reqs[r].status # 0 /\ ~reqs[r].thrown)
              => /\ reqs[r].status = 200
                 /\ reqs[r].body[1].song.title = DemoTrack.title
                 /\ reqs[r].body[1].song.albumArt = null

\* C13 as stated: when RAPIDAPI_KEY is absent from the environment,
\* identifyMusic sends no request to the provider.
C13_Original_NoKeyNoRequest ==
  \A r \in Requests : ~RAPIDAPI_KEY => reqs[r].calls = <<>>

\* the MIME types of Mimetypes that start with "audio/"
AudioMimetypes == {<<"audio", "mpeg">>}
\* the upload has a file part over 10 MiB or of a non-audio MIME type
Refused(upload) ==
  /\ upload # <<>>
  /\ \/ upload[1].size > 10485760
     \/ upload[1].mimetype \notin AudioMimetypes

C15_RefusedUploadChangesNothing ==
  [][\A r \in Requests :
       (reqs'[r] # reqs[r] /\ (Refused(reqs'[r].upload) \/ reqs'[r].upload = <<>>))
         => /\ songs' = songs
            /\ identifications' = identifications
            /\ files' = files
            /\ reqs'[r].calls = <<>>
            /\ reqs'[r].result.status = "none"]_vars

\* after one upload was stored, another request was refused and has ended
\* with 400: the Store holds what the first upload put there
C15_Witness ==
  \E r1, r2 \in Requests :
    /\ reqs[r1].status = 200
    /\ reqs[r1].pc = "done"
    /\ Refused(reqs[r2].upload)
    /\ reqs[r2].status = 400
    /\ Cardinality(DOMAIN songs) = 1
    /\ Len(identifications) = 1

\* C16: when identifyMusic has returned a result whose status is not
\* "success" or that has no first music entry, the request creates neither a
\* Song nor an Identification, and its response is 404 with exactly message,
\* error and apiResponse, the latter being what identifyMusic returned.
C16_NotIdentifiedIs404 ==
  /\ Cardinality(DOMAIN songs) =
       Cardinality({r \in Requests : reqs[r].song # <<>>})
  /\ Len(identifications) =
       Cardinality({r \in Requests : reqs[r].identification # <<>>})
  /\ \A r \in Requests :
       LET q == reqs[r]
       IN  (/\ q.result.status # "none"
            /\ (q.result.status # "success" \/ q.result.music = <<>>))
             => /\ q.song = <<>>
                /\ q.identification = <<>>
                /\ q.status \in {0, 404}
                /\ q.pc \in {"finally", "done"} => q.status = 404
                /\ q.status = 404
                     => /\ DOMAIN q.body = {"message", "error", "apiResponse"}
                        /\ q.body.message = "Song not identified"
                        /\ q.body.apiResponse = q.result

\* a request was answered 404 after all three providers gave no track, and
\* the Store is empty
C16_Witness ==
  \E r \in Requests :
    /\ reqs[r].status = 404
    /\ reqs[r].pc = "done"
    /\ reqs[r].calls = <<1, 2, 3>>
    /\ songs = <<>>
    /\ identifications = <<>>

\* C17 as stated: when every provider attempt of a request failed with a
\* provider error (rejected fetch, response not ok, unreadable JSON) and
\* none answered "no match", the response is 500 with message and error.
C17_Original_ProviderErrorsAre500 ==
  \A r \in Requests :
    LET q == reqs[r]
    IN  (/\ q.calls = <<1, 2, 3>>
         /\ q.result = AllApisFailed
         /\ ~q.noMatch
         /\ q.status # 0)
          => /\ q.status = 500
             /\ {"message", "error"} \subseteq DOMAIN q.body

\* C18 as stated: every error response of the endpoints, 400, 404 or 500,
\* has both a message field and an error field.
C18_Original_ErrorsHaveMessageAndError ==
  /\ \A r \in Requests :
       reqs[r].status \in {400, 404, 500}
         => {"message", "error"} \subseteq DOMAIN reqs[r].body
  /\ hist.status \in {400, 404, 500}
       => {"message", "error"} \subseteq DOMAIN hist.body

\* C19 as stated: when identifyMusic is given an empty buffer (the uploaded
\* file has no bytes), no provider is called and no heuristic or placeholder
\* result is produced: the request is rejected.
C19_Original_EmptyBufferRejected ==
  \A r \in Requests :
    LET q == reqs[r]
    IN  (q.upload # <<>> /\ q.upload[1].size = 0)
          => /\ q.buffer # <<>> => q.buffer[1].length = 0
             /\ q.calls = <<>>
             /\ q.result.status # "success"
             /\ q.status # 200

\* C20 as stated: a provider call that is never answered is ended by a
\* timeout and counted as that provider's failure, so a request whose
\* provider hangs still has a next step.
C20_Original_HungProviderTimesOut ==
  \A r \in Requests : reqs[r].pc = "hung" => ENABLED RequestStep(r)

\* C21: under every interleaving of the upload requests at their await
\* points, the result a request answers with is the Identification this
\* request created, joined with the Song this request created, and every
\* record any request created is still stored, unchanged, under its own id.
C21_ReadsOwnWrites ==
  /\ \A r \in Requests :
       LET q == reqs[r]
       IN  /\ q.identification # <<>>
             => /\ q.song # <<>>
                /\ q.identification[1].songId = q.song[1].id
                /\ q.identification[1].filename = originalname(r)
           /\ q.status = 200
             => /\ q.identification # <<>>
                /\ q.body = <<Joined(q.identification[1], q.song[1])>>
           /\ q.song # <<>> => getSong(q.song[1].id) = q.song
           /\ q.identification # <<>>
             => identificationsGet(q.identification[1].id) = q.identification
  /\ \A r1, r2 \in Requests :
       (r1 # r2 /\ reqs[r1].song # <<>> /\ reqs[r2].song # <<>>)
         => reqs[r1].song[1].id # reqs[r2].song[1].id
  /\ \A r1, r2 \in Requests :
       (r1 # r2 /\ reqs[r1].identification # <<>> /\ reqs[r2].identification # <<>>)
         => reqs[r1].identification[1].id # reqs[r2].identification[1].id
  /\ Cardinality(DOMAIN songs) = Len(retSongs)
  /\ Len(identifications) = Len(retIdents)

\* two uploads ran interleaved, both Songs were created before either
\* Identification, and both were answered 200
C21_Witness ==
  /\ \A r \in Requests : reqs[r].status = 200
  /\ reqs[1].song[1].id = 1
  /\ reqs[2].song[1].id = 2
  /\ reqs[2].identification[1].id = 3
  /\ reqs[1].identification[1].id = 4

\* C22: the History Endpoint calls getRecentIdentifications with 10 when
\* the limit parameter is absent or parseInt finds no integer in it, and
\* with the parsed integer when that is positive (a text that starts with
\* an integer, like "2px", parses to it); it answers 200 with exactly what
\* getRecentIdentifications returned, newest first.
C22_HistoryLimit ==
  hist.query # "none"
    => /\ hist.status = 200
       /\ hist.query \in {"absent", "abc"} => hist.limit = 10
       /\ \A n \in 1..MaxQueryLimit : hist.query = ToString(n) => hist.limit = n
       /\ hist.query = "2px" => hist.limit = 2
       /\ hist.body = getRecentIdentifications(hist.limit)
       /\ \A i \in 1..(Len(hist.body) - 1) :
            hist.body[i].createdAt >= hist.body[i + 1].createdAt

\* with two identifications stored at different times, a request with an
\* unparsable limit got both, newest first
C22_Witness ==
  /\ hist.query = "abc"
  /\ hist.limit = 10
  /\ Len(hist.body) = 2
  /\ hist.body[1].createdAt > hist.body[2].createdAt

\* C23: in the Shazam + heuristic variant identifyMusic always returns a
\* success, and when it is the heuristic's guess (Shazam matched nothing) its
\* score is at most 70, whatever the buffer is; the confidence stored and
\* answered for such a guess is that score, so at most 70.
C23_HeuristicScoreAtMost70 ==
  \A r \in Requests :
    LET q == reqs[r]
    IN  /\ q.result.status # "none"
          => q.result.status = "success" /\ q.result.music # <<>>
        /\ (q.result.status = "success" /\ q.matches = <<>>)
          => /\ q.result.music[1].score \in 1..70
             /\ q.identification # <<>>
                  => /\ q.identification[1].confidence = q.result.music[1].score
                     /\ identificationsGet(q.identification[1].id)[1].confidence <= 70
             /\ q.status = 200 => q.body[1].confidence <= 70

\* Shazam answered without a track, the heuristic guessed "Unknown Song" for
\* a mid-sized buffer, and the upload was answered 200 with confidence 45
C23_Witness ==
  \E r \in Requests :
    /\ reqs[r].noMatch
    /\ reqs[r].matches = <<>>
    /\ reqs[r].upload[1].size = 2000000
    /\ reqs[r].status = 200
    /\ reqs[r].body[1].confidence = 45
    /\ reqs[r].body[1].song.title = "Unknown Song"

\* tracks as identifyMusic may hand them to the handler: complete, with a
\* Spotify track id, and with every optional part missing and a score of 0
FullTrack ==
  [title |-> "Blinding Lights", artist |-> "The Weeknd", album |-> "After Hours",
   release_date |-> "2019-11-29", score |-> 85, spotifyId |-> null, api |-> 3]
SpotifyTrack == [FullTrack EXCEPT !.spotifyId = "0VjIjW4GlULA1OgON3MzNs"]
BareTrack ==
  [title |-> "", artist |-> "", album |-> "", release_date |-> "",
   score |-> 0, spotifyId |-> "", api |-> 3]
\* the Song the claim describes for a track
SongOf(track) ==
  [title |-> IF track.title \in {"", null} THEN "Unknown Title" ELSE track.title,
   artist |-> IF track.artist \in {"", null} THEN "Unknown Artist" ELSE track.artist,
   album |-> IF track.album \in {"", null} THEN null ELSE track.album,
   year |-> IF track.release_date = "2019-11-29" THEN "2019" ELSE null,
   genre |-> null, duration |-> null,
   spotifyUrl |-> IF track.spotifyId = "0VjIjW4GlULA1OgON3MzNs"
                  THEN "https://open.spotify.com/track/0VjIjW4GlULA1OgON3MzNs"
                  ELSE null,
   youtubeUrl |-> null, albumArt |-> null]
ConfidenceOf(track) == IF track.score = 0 THEN 95 ELSE track.score

\* C24: the Song a successful upload stores has title and artist of the
\* track, or "Unknown Title" / "Unknown Artist" when missing, the year of the
\* release date or null, the Spotify URL of the track id or null, and null
\* genre, duration, youtubeUrl and albumArt; its Identification has the new
\* Song's id, the original file name and the track's score as confidence, 95
\* when the score is missing or 0.
C24_StoredSongAndIdentification ==
  /\ \A track \in {FullTrack, SpotifyTrack, BareTrack} :
       /\ songData(track) = SongOf(track)
       /\ \A r \in Requests :
            identificationData([id |-> 1], r, track) =
              [songId |-> 1, filename |-> originalname(r),
               confidence |-> ConfidenceOf(track)]
  /\ \A r \in Requests :
       LET q == reqs[r]
       IN  /\ q.song # <<>>
             => /\ q.result.status = "success"
                /\ \A f \in SongFields :
                     q.song[1][f] = SongOf(q.result.music[1])[f]
                /\ getSong(q.song[1].id) = q.song
           /\ q.identification # <<>>
             => /\ q.identification[1].songId = q.song[1].id
                /\ q.identification[1].filename = originalname(r)
                /\ q.identification[1].confidence = ConfidenceOf(q.result.music[1])
                /\ identificationsGet(q.identification[1].id) = q.identification

\* an upload the second provider matched, with no title, artist or album in
\* its answer, was answered 200 with the defaulted Song and confidence 90
C24_Witness ==
  \E r \in Requests :
    /\ reqs[r].status = 200
    /\ reqs[r].matches = <<2>>
    /\ reqs[r].body[1].song.title = "Unknown Title"
    /\ reqs[r].body[1].song.artist = "Unknown Artist"
    /\ reqs[r].body[1].song.year = null
    /\ reqs[r].body[1].confidence = 90
    /\ reqs[r].body[1].filename = originalname(r)

\* the number of stored Identifications that come before the i-th in the
\* history: those created later, and those of the same createdAt stored
\* before it
Rank(i) ==
  Cardinality({j \in 1..Len(identifications) :
                 \/ identifications[j].createdAt > identifications[i].createdAt
                 \/ /\ identifications[j].createdAt = identifications[i].createdAt
                    /\ j < i})
\* the k first Identifications of the history, before the join
Newest(k) ==
  [n \in 1..Min(k, Len(identifications)) |->
     identifications[CHOOSE i \in 1..Len(identifications) : Rank(i) = n - 1]]
\* the Identification names a stored Song
Resolvable(identification) ==
  /\ identification.songId # NullId
  /\ identification.songId \in DOMAIN songs
\* each Identification joined with its Song
WithSongs(idents) ==
  [n \in 1..Len(idents) |-> Joined(idents[n], songs[idents[n].songId])]

\* C25: for every limit >= 0 (10 when it is omitted), the history is
\* exactly the resolvable ones among the limit first Identifications in
\* descending order of createdAt, in that order, each joined with its Song:
\* the cut comes before the join, and an unresolvable entry among them is
\* not replaced by an older resolvable one.
C25_TruncatesBeforeJoin ==
  \A limit \in Limits :
    (limit = NoLimit \/ limit >= 0)
      => LET k == IF limit = NoLimit THEN 10 ELSE limit
         IN  getRecentIdentifications(limit) =
               WithSongs(SelectSeq(Newest(k), Resolvable))

\* a history with limit 1 came back empty: the newest Identification has a
\* null or dangling songId, while an older one resolves
C25_Witness ==
  /\ lastCall.op = "getRecentIdentifications"
  /\ lastCall.arg = 1
  /\ lastCall.res = <<>>
  /\ Len(identifications) = 2
  /\ Resolvable(identifications[1])
  /\ identifications[2].createdAt > identifications[1].createdAt

\* C26: every upload request has added to the Store nothing, or one Song
\* only (createIdentification failed after createSong: the Song stays and
\* the answer is 500), or one Song and one Identification of that Song; so
\* the stored Identifications are never more than the stored Songs.
C26_AtMostOneSongAndIdentification ==
  /\ Cardinality(DOMAIN songs) =
       Cardinality({r \in Requests : reqs[r].song # <<>>})
  /\ Len(identifications) =
       Cardinality({r \in Requests : reqs[r].identification # <<>>})
  /\ Len(identifications) <= Cardinality(DOMAIN songs)
  /\ \A r \in Requests :
       LET q == reqs[r]
       IN  /\ q.identification # <<>>
             => q.song # <<>> /\ q.identification[1].songId = q.song[1].id
           /\ q.song # <<>> => getSong(q.song[1].id) = q.song
           /\ (q.pc = "done" /\ q.song # <<>> /\ q.identification = <<>>)
             => q.status = 500 /\ q.thrown
           /\ (q.pc = "done" /\ q.song = <<>>) => q.status # 200

\* a request whose createIdentification failed has ended with 500: its Song
\* is stored and no Identification is, while the other request stored both
C26_Witness ==
  \E r1, r2 \in Requests :
    /\ reqs[r1].pc = "done"
    /\ reqs[r1].status = 500
    /\ reqs[r1].song # <<>>
    /\ reqs[r1].identification = <<>>
    /\ reqs[r2].status = 200
    /\ Cardinality(DOMAIN songs) = 2
    /\ Len(identifications) = 1

\* C27: a limit of "0" is replaced by 10, so the history has at most 10
\* entries; a negative limit -k reaches getRecentIdentifications unchanged,
\* and the history is then every stored Identification except the k last of
\* the descending order (the k oldest), however many those are.
C27_ZeroAndNegativeLimit ==
  /\ hist.query = "0"
       => /\ hist.limit = 10
          /\ hist.body = WithSongs(SelectSeq(Newest(10), Resolvable))
          /\ Len(hist.body) <= 10
  /\ \A k \in 1..MaxQueryLimit :
       hist.query = ToString(0 - k)
         => /\ hist.limit = 0 - k
            /\ hist.body = WithSongs(SelectSeq(
                 Newest(Max(Len(identifications) - k, 0)), Resolvable))
            /\ Len(hist.body) = Max(Len(identifications) - k, 0)

\* with 12 uploads stored, a history request with limit=-1 was answered
\* with 11 entries
C27_Witness ==
  /\ hist.query = "-1"
  /\ Len(identifications) = 12
  /\ Len(hist.body) = 11

====
